---- MODULE Spec2Model ----
(***************************************************************************)
(* Model of scripts/check_consistency.py: the cross-source consistency     *)
(* checker.  main() preloads the site metadata index, runs three per-unit  *)
(* rules over the name-sorted discovered units, runs three global rules,   *)
(* prints the findings and returns the exit status.                        *)
(*                                                                         *)
(* Text values are sequences of tokens (a version is a sequence of         *)
(* characters, a path a sequence of components).  A JSON object is a       *)
(* function whose domain is its key set, so that d.get(k, default) and the *)
(* truthiness of a dict are what they are in Python.                       *)
(***************************************************************************)
EXTENDS Integers, Sequences, FiniteSets, TLC

VARIABLES
    json_mode,          \* "--json" in sys.argv
    PLUGIN_DIRS,        \* discovered unit names, in iterdir() order
    plugin_json,        \* [unit -> file]  <unit>/.claude-plugin/plugin.json
    marketplace_json,   \* [unit -> file]  <unit>/.claude-plugin/marketplace.json
    changelog,          \* [unit -> file]  <unit>/CHANGELOG.md
    SITE_META,          \* file skill7.dev/src/data/plugin-meta.json
    SITE_MARKETPLACE,   \* file skill7.dev/src/data/marketplace.json
    EMPORIUM_MARKETPLACE, \* file emporium/.claude-plugin/marketplace.json
    disk,               \* [path -> "dir" | "file"] for the paths that exist
    pc,                 \* position of main()
    todo,               \* units the for loop of main() has still to visit
    site_meta_cache,    \* the file main() preloaded (line 313)
    findings,           \* the findings list of main()
    stdout,             \* what main() printed
    returned,           \* << >> until main() returns, then <<status>>
    calls,              \* the rule invocations so far, <<rule, unit>>
    v,                  \* input of SEMVER_RE.match in the regex specification
    matched             \* "none" | "match" | "nomatch": its result

vars == <<json_mode, PLUGIN_DIRS, plugin_json, marketplace_json, changelog,
          SITE_META, SITE_MARKETPLACE, EMPORIUM_MARKETPLACE, disk, pc, todo,
          site_meta_cache, findings, stdout, returned, calls, v, matched>>

inputs == <<json_mode, PLUGIN_DIRS, plugin_json, marketplace_json, changelog,
            SITE_META, SITE_MARKETPLACE, EMPORIUM_MARKETPLACE, disk>>

----------------------------------------------------------------------------
(* Python values *)

EmptyDict == [k \in {} |-> k]

\* d.get(k, default)
Get(d, k, default) == IF k \in DOMAIN d THEN d[k] ELSE default

\* bool(x) of a dict, a list or a str: non-empty
Truthy(x) == DOMAIN x # {}

JNull == [t |-> "null"]
JInt == [t |-> "int"]
JStr(s) == [t |-> "str", s |-> s]

\* isinstance(x, str)
IsStr(x) == x.t = "str"

Absent == [st |-> "absent"]
Malformed == [st |-> "malformed"]
Ok(data) == [st |-> "ok", data |-> data]

Min(a, b) == IF a < b THEN a ELSE b

RECURSIVE Flatten(_)
Flatten(ss) == IF ss = << >> THEN << >> ELSE Head(ss) \o Flatten(Tail(ss))

\* the number of elements of s that satisfy Test
Count(s, Test(_)) == Len(SelectSeq(s, Test))

----------------------------------------------------------------------------
(* class Finding *)

Finding(severity, plugin, message, arg, sources) ==
    [severity |-> severity, plugin |-> plugin,
     message |-> [text |-> message, arg |-> arg], sources |-> sources]

\* Finding.__str__: "[severity] plugin: message (k=v, ...)"
FindingStr(f) ==
    <<"[", f.severity, "]", f.plugin, f.message>>
        \o (IF f.sources # << >> THEN <<f.sources>> ELSE << >>)

\* Finding.to_dict
to_dict(f) ==
    [severity |-> f.severity, plugin |-> f.plugin,
     message |-> f.message, sources |-> f.sources]

----------------------------------------------------------------------------
\* SEMVER_RE, three groups "0 or a non-zero digit followed by digits"
\* separated by dots between ^ and $, matched as the regex engine does:
\* the positions reachable after each piece of the pattern.

Digits == {"0", "1", "2", "3", "4", "5", "6", "7", "8", "9"}

\* positions after one group matched at position i of s
AfterGroup(s, i) ==
    IF i > Len(s) THEN {}
    ELSE IF s[i] = "0" THEN {i + 1}
    ELSE IF s[i] \in Digits
         THEN {j \in (i + 1)..(Len(s) + 1) :
                  \A k \in (i + 1)..(j - 1) : s[k] \in Digits}
    ELSE {}

\* positions after the literal dot matched at position i
AfterDot(s, i) == IF i <= Len(s) /\ s[i] = "." THEN {i + 1} ELSE {}

\* $ without re.MULTILINE: at the end of the string, or just before a
\* newline that is the last character
AtDollar(s, i) ==
    \/ i = Len(s) + 1
    \/ i = Len(s) /\ s[i] = "\n"

Step(s, from, After(_, _)) == UNION {After(s, i) : i \in from}

\* SEMVER_RE.match(s) is not None
SEMVER_RE_match(s) ==
    LET g1 == AfterGroup(s, 1)
        d1 == Step(s, g1, AfterDot)
        g2 == Step(s, d1, AfterGroup)
        d2 == Step(s, g2, AfterDot)
        g3 == Step(s, d2, AfterGroup)
    IN  \E i \in g3 : AtDollar(s, i)

----------------------------------------------------------------------------
(* pathlib over the modelled disk.  A path is its sequence of components,  *)
(* an absolute path starts with the component "/".  The disk holds no      *)
(* symbolic links.                                                         *)

FABRICA_ROOT == <<"/", "fab">>

\* Path(p).is_absolute()
is_absolute(p) == p # << >> /\ p[1] = "/"

\* a / b
Join(a, b) == IF is_absolute(b) THEN b ELSE a \o b

\* Path.resolve(): "." dropped, ".." steps to the parent (the root is its
\* own parent)
RECURSIVE Normalise(_, _)
Normalise(p, acc) ==
    IF p = << >> THEN acc
    ELSE IF Head(p) = "." THEN Normalise(Tail(p), acc)
    ELSE IF Head(p) = ".."
         THEN Normalise(Tail(p),
                  IF Len(acc) > 1 THEN SubSeq(acc, 1, Len(acc) - 1) ELSE acc)
    ELSE Normalise(Tail(p), Append(acc, Head(p)))

resolve(p) == Normalise(p, << >>)

\* Path.exists(): the kernel walks the path, so every proper prefix has to
\* be an existing directory and the whole path an existing entry
exists(p) ==
    /\ \A i \in 1..(Len(p) - 1) :
          LET q == resolve(SubSeq(p, 1, i))
          IN  q \in DOMAIN disk /\ disk[q] = "dir"
    /\ resolve(p) \in DOMAIN disk

\* Path.is_dir()
is_dir(p) == exists(p) /\ disk[resolve(p)] = "dir"

plugin_dir(name) == Append(FABRICA_ROOT, name)

----------------------------------------------------------------------------
(* check_plugin_json_schema *)

required == <<"name", "version", "description", "author", "license">>

\* the loads of check_plugin_json_schema raise
SchemaRaises(pjFile, mktFile) ==
    \/ pjFile.st = "malformed"
    \/ pjFile.st = "absent" /\ mktFile.st = "malformed"

MissingFieldFindings(name, pj) ==
    Flatten([i \in 1..Len(required) |->
        IF required[i] \notin DOMAIN pj \/ pj[required[i]] = JNull
        THEN <<Finding("HIGH", name, "plugin.json missing required field",
                       <<required[i]>>, << >>)>>
        ELSE << >>])

VersionFindings(name, pj) ==
    LET version == Get(pj, "version", JNull)
    IN  IF ~IsStr(version)
        THEN IF version.t # "null"
             THEN <<Finding("HIGH", name, "plugin.json version is not a string",
                            <<version.t>>, << >>)>>
             ELSE << >>
        ELSE IF ~SEMVER_RE_match(version.s)
             THEN <<Finding("HIGH", name, "plugin.json version is not valid semver",
                            version.s, << >>)>>
             ELSE << >>

\* NameFindings comparing the names without regard to case
Lower == [A |-> "a", a |-> "a", b |-> "b", c |-> "c"]
NameFindings_caseless(name, pj) ==
    LET pj_name == Get(pj, "name", JNull)
    IN  IF IsStr(pj_name) /\ Lower[pj_name.s] # Lower[name]
        THEN <<Finding("HIGH", name, "plugin.json name doesn't match directory name",
                       << >>,
                       << <<"plugin.json", <<pj_name.s>> >>,
                          <<"directory", <<name>> >> >>)>>
        ELSE << >>

NameFindings(name, pj) ==
    LET pj_name == Get(pj, "name", JNull)
    IN  IF IsStr(pj_name) /\ pj_name.s # name
        THEN <<Finding("HIGH", name, "plugin.json name doesn't match directory name",
                       << >>,
                       << <<"plugin.json", <<pj_name.s>> >>,
                          <<"directory", <<name>> >> >>)>>
        ELSE << >>

\* the findings check_plugin_json_schema appends for the unit `name`
check_plugin_json_schema(name, pjFile, mktFile) ==
    IF pjFile.st = "absent"
    THEN IF mktFile.st # "absent"
         THEN << >>
         ELSE <<Finding("MEDIUM", name, "No plugin.json or marketplace.json found",
                        << >>, << >>)>>
    ELSE MissingFieldFindings(name, pjFile.data)
            \o VersionFindings(name, pjFile.data)
            \o NameFindings(name, pjFile.data)

----------------------------------------------------------------------------
(* check_marketplace_components *)

component_types == <<"skills", "commands", "agents", "hooks">>
undeclared_order == <<"hooks", "skills", "commands", "agents">>

ComponentsRaises(mktFile) == mktFile.st = "malformed"

\* MissingPathFindings that looks at the first path of a category only
MissingPathFindings_first_only(name, plugin_entry) ==
    Flatten([c \in 1..Len(component_types) |->
        LET declared == Get(plugin_entry, component_types[c], << >>)
        IN  IF declared # << >> /\ ~exists(Join(plugin_dir(name), declared[1]))
            THEN <<Finding("HIGH", name,
                           "marketplace.json declares path that does not exist",
                           <<component_types[c]>> \o declared[1], << >>)>>
            ELSE << >>])

\* lines 145-156: one finding per declared path that does not exist
MissingPathFindings(name, plugin_entry) ==
    Flatten([c \in 1..Len(component_types) |->
        LET declared == Get(plugin_entry, component_types[c], << >>)
        IN  Flatten([i \in 1..Len(declared) |->
                IF ~exists(Join(plugin_dir(name), declared[i]))
                THEN <<Finding("HIGH", name,
                               "marketplace.json declares path that does not exist",
                               <<component_types[c]>> \o declared[i], << >>)>>
                ELSE << >>])])

\* AbsolutePathFindings that reports an absolute path only if it is missing
AbsolutePathFindings_missing_only(name, plugin_entry) ==
    Flatten([c \in 1..Len(component_types) |->
        LET declared == Get(plugin_entry, component_types[c], << >>)
        IN  Flatten([i \in 1..Len(declared) |->
                IF is_absolute(declared[i]) /\ ~exists(declared[i])
                THEN <<Finding("HIGH", name, "marketplace.json has absolute path",
                               <<component_types[c]>> \o declared[i], << >>)>>
                ELSE << >>])])

\* lines 158-164: one finding per declared absolute path
AbsolutePathFindings(name, plugin_entry) ==
    Flatten([c \in 1..Len(component_types) |->
        LET declared == Get(plugin_entry, component_types[c], << >>)
        IN  Flatten([i \in 1..Len(declared) |->
                IF is_absolute(declared[i])
                THEN <<Finding("HIGH", name, "marketplace.json has absolute path",
                               <<component_types[c]>> \o declared[i], << >>)>>
                ELSE << >>])])

\* lines 166-187: a conventional directory no path of this entry resolves to
UndeclaredFindings(name, plugin_entry) ==
    Flatten([c \in 1..Len(undeclared_order) |->
        LET dir_name == undeclared_order[c]
            dir_path == Append(plugin_dir(name), dir_name)
            declared == Get(plugin_entry, dir_name, << >>)
            matching == \E i \in 1..Len(declared) :
                           resolve(Join(plugin_dir(name), declared[i]))
                               = resolve(dir_path)
        IN  IF exists(dir_path) /\ is_dir(dir_path) /\ ~matching
            THEN <<Finding("MEDIUM", name,
                           "directory exists but not declared in marketplace.json",
                           <<dir_name>>, << >>)>>
            ELSE << >>])

\* the findings check_marketplace_components appends for the unit `name`
check_marketplace_components(name, mktFile) ==
    IF mktFile.st = "absent" THEN << >>
    ELSE LET plugins == Get(mktFile.data, "plugins", << >>)
         IN  Flatten([e \in 1..Len(plugins) |->
                 MissingPathFindings(name, plugins[e])
                    \o AbsolutePathFindings(name, plugins[e])
                    \o UndeclaredFindings(name, plugins[e])])

----------------------------------------------------------------------------
\* CHANGELOG_VERSION_RE = "##", whitespace*, "[", digits "." digits "."
\* digits, "]", searched from the left; group 1 is the text in the brackets.

Whitespace == {" ", "\t", "\n"}

\* positions after whitespace* matched at position i (every prefix of the run)
AfterSpaces(s, i) ==
    {j \in i..(Len(s) + 1) : \A k \in i..(j - 1) : s[k] \in Whitespace}

\* positions after digits+ matched at position i
AfterDigits(s, i) ==
    {j \in (i + 1)..(Len(s) + 1) : \A k \in i..(j - 1) : s[k] \in Digits}

AfterChar(s, i, c) == IF i <= Len(s) /\ s[i] = c THEN {i + 1} ELSE {}

\* the pairs <<start of group 1, position after the match>> of the matches
\* of the pattern that begin at position i
MatchesAt(s, i) ==
    LET h1 == AfterChar(s, i, "#")
        h2 == UNION {AfterChar(s, j, "#") : j \in h1}
        sp == UNION {AfterSpaces(s, j) : j \in h2}
        open == UNION {AfterChar(s, j, "[") : j \in sp}
        Tail3(g) ==
            LET n1 == AfterDigits(s, g)
                p1 == UNION {AfterChar(s, j, ".") : j \in n1}
                n2 == UNION {AfterDigits(s, j) : j \in p1}
                p2 == UNION {AfterChar(s, j, ".") : j \in n2}
                n3 == UNION {AfterDigits(s, j) : j \in p2}
            IN  UNION {AfterChar(s, j, "]") : j \in n3}
    IN  UNION {{<<g, e>> : e \in Tail3(g)} : g \in open}

\* get_changelog_version: << >> stands for None, <<version>> for a match
get_changelog_version(file) ==
    IF file.st = "absent" THEN << >>
    ELSE LET text == file.data
             starts == {i \in 1..Len(text) : MatchesAt(text, i) # {}}
         IN  IF starts = {} THEN << >>
             ELSE LET i == CHOOSE a \in starts : \A b \in starts : a <= b
                      m == CHOOSE ge \in MatchesAt(text, i) : TRUE
                  IN  <<SubSeq(text, m[1], m[2] - 2)>>

----------------------------------------------------------------------------
(* check_version_consistency *)

\* site_meta_cache if it is not None, else load_json(SITE_META)
SiteMetaOf(cache, siteMetaFile) == IF cache.st = "ok" THEN cache ELSE siteMetaFile

VersionRaises(pjFile, cache, siteMetaFile) ==
    \/ pjFile.st = "malformed"
    \/ /\ pjFile.st = "ok"
       /\ LET cv == Get(pjFile.data, "version", JNull)
          IN  IsStr(cv) /\ cv.s # << >>
       /\ cache.st # "ok"
       /\ siteMetaFile.st = "malformed"

ChangelogFindings(name, canonical_version, changelog_version) ==
    IF changelog_version # << >> /\ changelog_version[1] # << >>
       /\ changelog_version[1] # canonical_version
    THEN <<Finding("HIGH", name, "Version mismatch: plugin.json vs CHANGELOG.md",
                   << >>,
                   << <<"plugin.json", canonical_version>>,
                      <<"CHANGELOG.md", changelog_version[1]>> >>)>>
    ELSE << >>

\* SiteVersionFindings without the test that the site version is non-empty
SiteVersionFindings_empty_too(name, canonical_version, site_meta) ==
    IF site_meta.st = "ok" /\ Truthy(site_meta.data)
    THEN LET plugins == Get(site_meta.data, "plugins", EmptyDict)
         IN  IF name \in DOMAIN plugins /\ Truthy(plugins[name])
             THEN LET site_version == Get(plugins[name], "version", << >>)
                  IN  IF site_version # canonical_version
                      THEN <<Finding("CRITICAL", name,
                                "Version mismatch: plugin.json vs skill7.dev plugin-meta.json",
                                << >>,
                                << <<"plugin.json", canonical_version>>,
                                   <<"plugin-meta.json", site_version>> >>)>>
                      ELSE << >>
             ELSE << >>
    ELSE << >>

SiteVersionFindings(name, canonical_version, site_meta) ==
    IF site_meta.st = "ok" /\ Truthy(site_meta.data)
    THEN LET plugins == Get(site_meta.data, "plugins", EmptyDict)
         IN  IF name \in DOMAIN plugins /\ Truthy(plugins[name])
             THEN LET site_version == Get(plugins[name], "version", << >>)
                  IN  IF site_version # << >> /\ site_version # canonical_version
                      THEN <<Finding("CRITICAL", name,
                                "Version mismatch: plugin.json vs skill7.dev plugin-meta.json",
                                << >>,
                                << <<"plugin.json", canonical_version>>,
                                   <<"plugin-meta.json", site_version>> >>)>>
                      ELSE << >>
             ELSE << >>
    ELSE << >>

\* the findings check_version_consistency appends for the unit `name`
check_version_consistency(name, pjFile, changelogFile, cache, siteMetaFile) ==
    IF pjFile.st = "absent" THEN << >>
    ELSE LET canonical_version == Get(pjFile.data, "version", JNull)
         IN  IF ~IsStr(canonical_version) \/ canonical_version.s = << >>
             THEN << >>
             ELSE ChangelogFindings(name, canonical_version.s,
                                    get_changelog_version(changelogFile))
                    \o SiteVersionFindings(name, canonical_version.s,
                                           SiteMetaOf(cache, siteMetaFile))

----------------------------------------------------------------------------
(* the global rules *)

PreviewLen == 80

\* a listing is usable when load_json gave a non-empty object
Usable(file) == file.st = "ok" /\ Truthy(file.data)

\* ListingRaises where a malformed second listing is read as an absent one
ListingRaises_first_only(a, b) == a.st = "malformed"

ListingRaises(a, b) == a.st = "malformed" \/ b.st = "malformed"

\* the names of a listing, in the order a dict built from it keeps them
RECURSIVE DictKeys(_, _)
DictKeys(plugins, seen) ==
    IF plugins = << >> THEN << >>
    ELSE IF Head(plugins).name \in seen THEN DictKeys(Tail(plugins), seen)
    ELSE <<Head(plugins).name>>
            \o DictKeys(Tail(plugins), seen \cup {Head(plugins).name})

\* the description a dict built from the listing holds for a name: the last
DescOf(plugins, name) ==
    LET last == CHOOSE i \in 1..Len(plugins) :
                    /\ plugins[i].name = name
                    /\ \A j \in (i + 1)..Len(plugins) : plugins[j].name # name
    IN  plugins[last].description

Preview(d) == SubSeq(d, 1, Min(PreviewLen, Len(d))) \o <<"...">>

\* the findings check_description_consistency appends
check_description_consistency(siteFile, emporiumFile) ==
    IF ~Usable(siteFile) \/ ~Usable(emporiumFile) THEN << >>
    ELSE LET site == Get(siteFile.data, "plugins", << >>)
             emporium == Get(emporiumFile.data, "plugins", << >>)
             names == DictKeys(site, {})
             emporium_names == {emporium[i].name : i \in 1..Len(emporium)}
         IN  Flatten([i \in 1..Len(names) |->
                 IF names[i] \in emporium_names
                    /\ DescOf(site, names[i]) # DescOf(emporium, names[i])
                 THEN <<Finding("MEDIUM", names[i],
                          "Description mismatch: skill7.dev marketplace.json vs emporium marketplace.json",
                          << >>,
                          << <<"site", Preview(DescOf(site, names[i]))>>,
                             <<"emporium", Preview(DescOf(emporium, names[i]))>> >>)>>
                 ELSE << >>])

\* the sequences that list every element of the set S once: the orders in
\* which a Python set may be iterated
Orders(S) ==
    {o \in [1..Cardinality(S) -> S] : \A x \in S : \E i \in DOMAIN o : o[i] = x}

\* the possible lists of findings check_emporium_vs_site appends (a set is
\* iterated in an order the run does not fix)
check_emporium_vs_site(siteFile, emporiumFile) ==
    IF ~Usable(siteFile) \/ ~Usable(emporiumFile) THEN {<< >>}
    ELSE LET site == Get(siteFile.data, "plugins", << >>)
             emporium == Get(emporiumFile.data, "plugins", << >>)
             site_names == {site[i].name : i \in 1..Len(site)}
             emporium_names == {emporium[i].name : i \in 1..Len(emporium)}
         IN  {[i \in 1..Len(a) |->
                  Finding("HIGH", a[i],
                          "Plugin in emporium but missing from skill7.dev",
                          << >>, << >>)]
              \o [i \in 1..Len(b) |->
                  Finding("HIGH", b[i],
                          "Plugin on skill7.dev but missing from emporium",
                          << >>, << >>)] :
              a \in Orders(emporium_names \ site_names),
              b \in Orders(site_names \ emporium_names)}

\* the loads of check_site_meta_completeness raise
CompletenessRaises(siteFile, siteMetaFile) ==
    siteFile.st = "malformed" \/ siteMetaFile.st = "malformed"

\* the findings check_site_meta_completeness appends
check_site_meta_completeness(siteFile, siteMetaFile) ==
    IF ~Usable(siteFile) \/ ~Usable(siteMetaFile) THEN << >>
    ELSE LET meta_plugins == Get(siteMetaFile.data, "plugins", EmptyDict)
             site == Get(siteFile.data, "plugins", << >>)
         IN  Flatten([i \in 1..Len(site) |->
                 LET name == site[i].name
                 IN  IF name \notin DOMAIN meta_plugins
                     THEN <<Finding("HIGH", name,
                              "Plugin in marketplace.json but missing from plugin-meta.json",
                              << >>, << >>)>>
                     ELSE (IF Get(meta_plugins[name], "version", << >>) = << >>
                           THEN <<Finding("MEDIUM", name,
                                          "No version in plugin-meta.json",
                                          << >>, << >>)>>
                           ELSE << >>)
                          \o
                          (IF Get(meta_plugins[name], "tags", << >>) = << >>
                           THEN <<Finding("LOW", name, "No tags in plugin-meta.json",
                                          << >>, << >>)>>
                           ELSE << >>)])

----------------------------------------------------------------------------
(* main *)

\* the order of str (and so of the paths of one directory): code points
NameRank == [A |-> 1, a |-> 2, b |-> 3, c |-> 4]

\* sorted(): insertion into an ascending list
RECURSIVE Insert(_, _)
Insert(x, s) ==
    IF s = << >> THEN <<x>>
    ELSE IF NameRank[x] < NameRank[Head(s)] THEN <<x>> \o s
    ELSE <<Head(s)>> \o Insert(x, Tail(s))

\* sorted() left out: the units in iterdir() order
sorted_unsorted(s) == s

RECURSIVE sorted(_)
sorted(s) == IF s = << >> THEN << >> ELSE Insert(Head(s), sorted(Tail(s)))

Blocking == {"CRITICAL", "HIGH"}
Severities == <<"CRITICAL", "HIGH", "MEDIUM", "LOW">>

\* has_blocking with HIGH left out of the blocking severities
has_blocking_critical_only(fs) == \E i \in 1..Len(fs) : fs[i].severity = "CRITICAL"

\* any(f.severity in ("CRITICAL", "HIGH") for f in findings)
has_blocking(fs) == \E i \in 1..Len(fs) : fs[i].severity \in Blocking

OfSeverity(fs, sev) == SelectSeq(fs, LAMBDA f : f.severity = sev)

\* lines 333-348: the severity blocks and the summary line
HumanReport(fs) ==
    Flatten([k \in 1..Len(Severities) |->
        LET block == OfSeverity(fs, Severities[k])
        IN  IF block # << >>
            THEN <<<<"header", Severities[k], Len(block)>>>>
                    \o [i \in 1..Len(block) |-> <<"finding", FindingStr(block[i])>>]
            ELSE << >>])
    \o <<<<"summary", Len(fs), Len(OfSeverity(fs, "CRITICAL")),
          Len(OfSeverity(fs, "HIGH")), Len(OfSeverity(fs, "MEDIUM")),
          Len(OfSeverity(fs, "LOW"))>>>>

\* lines 326-348: what main() prints
Printed(mode, fs) ==
    IF mode THEN <<<<"json", [i \in 1..Len(fs) |-> to_dict(fs[i])]>>>>
    ELSE IF fs = << >> THEN <<<<"All consistency checks passed.">>>>
    ELSE HumanReport(fs)

\* lines 329-331 and 350-351: what main() returns
ExitStatus(mode, fs) ==
    IF ~mode /\ fs = << >> THEN 0
    ELSE IF has_blocking(fs) THEN 1 ELSE 0

AfterUnits(rest) == IF rest = << >> THEN "description" ELSE "schema"

\* an uncaught exception leaves main(): nothing is printed or returned
Abort ==
    /\ pc' = "aborted"
    /\ UNCHANGED <<todo, site_meta_cache, findings, stdout, returned>>

\* line 313 and the evaluation of sorted(PLUGIN_DIRS) at line 316
Preload ==
    /\ pc = "start"
    /\ IF SITE_META.st = "malformed"
       THEN Abort
       ELSE /\ site_meta_cache' = SITE_META
            /\ todo' = sorted(PLUGIN_DIRS)
            /\ pc' = AfterUnits(sorted(PLUGIN_DIRS))
            /\ UNCHANGED <<findings, stdout, returned>>
    /\ UNCHANGED <<inputs, calls, v, matched>>

\* line 317
Schema ==
    /\ pc = "schema"
    /\ LET u == Head(todo)
       IN  /\ calls' = Append(calls, <<"schema", u>>)
           /\ IF SchemaRaises(plugin_json[u], marketplace_json[u])
              THEN Abort
              ELSE /\ findings' = findings \o
                          check_plugin_json_schema(u, plugin_json[u], marketplace_json[u])
                   /\ pc' = "components"
                   /\ UNCHANGED <<todo, site_meta_cache, stdout, returned>>
    /\ UNCHANGED <<inputs, v, matched>>

\* line 318
Components ==
    /\ pc = "components"
    /\ LET u == Head(todo)
       IN  /\ calls' = Append(calls, <<"components", u>>)
           /\ IF ComponentsRaises(marketplace_json[u])
              THEN Abort
              ELSE /\ findings' = findings \o
                          check_marketplace_components(u, marketplace_json[u])
                   /\ pc' = "version"
                   /\ UNCHANGED <<todo, site_meta_cache, stdout, returned>>
    /\ UNCHANGED <<inputs, v, matched>>

\* line 319, and the for loop's step to the next unit
Version ==
    /\ pc = "version"
    /\ LET u == Head(todo)
       IN  /\ calls' = Append(calls, <<"version", u>>)
           /\ IF VersionRaises(plugin_json[u], site_meta_cache, SITE_META)
              THEN Abort
              ELSE /\ findings' = findings \o
                          check_version_consistency(u, plugin_json[u], changelog[u],
                                                    site_meta_cache, SITE_META)
                   /\ todo' = Tail(todo)
                   /\ pc' = AfterUnits(Tail(todo))
                   /\ UNCHANGED <<site_meta_cache, stdout, returned>>
    /\ UNCHANGED <<inputs, v, matched>>

\* line 322
Description ==
    /\ pc = "description"
    /\ calls' = Append(calls, <<"description", "">>)
    /\ IF ListingRaises(SITE_MARKETPLACE, EMPORIUM_MARKETPLACE)
       THEN Abort
       ELSE /\ findings' = findings \o
                   check_description_consistency(SITE_MARKETPLACE, EMPORIUM_MARKETPLACE)
            /\ pc' = "emporium_vs_site"
            /\ UNCHANGED <<todo, site_meta_cache, stdout, returned>>
    /\ UNCHANGED <<inputs, v, matched>>

\* line 323
EmporiumVsSite ==
    /\ pc = "emporium_vs_site"
    /\ calls' = Append(calls, <<"emporium_vs_site", "">>)
    /\ IF ListingRaises(SITE_MARKETPLACE, EMPORIUM_MARKETPLACE)
       THEN Abort
       ELSE /\ \E new \in check_emporium_vs_site(SITE_MARKETPLACE, EMPORIUM_MARKETPLACE) :
                   findings' = findings \o new
            /\ pc' = "site_meta_completeness"
            /\ UNCHANGED <<todo, site_meta_cache, stdout, returned>>
    /\ UNCHANGED <<inputs, v, matched>>

\* line 324
SiteMetaCompleteness ==
    /\ pc = "site_meta_completeness"
    /\ calls' = Append(calls, <<"site_meta_completeness", "">>)
    /\ IF CompletenessRaises(SITE_MARKETPLACE, SITE_META)
       THEN Abort
       ELSE /\ findings' = findings \o
                   check_site_meta_completeness(SITE_MARKETPLACE, SITE_META)
            /\ pc' = "report"
            /\ UNCHANGED <<todo, site_meta_cache, stdout, returned>>
    /\ UNCHANGED <<inputs, v, matched>>

\* lines 326-351
Report ==
    /\ pc = "report"
    /\ stdout' = Printed(json_mode, findings)
    /\ returned' = <<ExitStatus(json_mode, findings)>>
    /\ pc' = "done"
    /\ UNCHANGED <<inputs, todo, site_meta_cache, findings, calls, v, matched>>

Next ==
    \/ Preload
    \/ Schema
    \/ Components
    \/ Version
    \/ Description
    \/ EmporiumVsSite
    \/ SiteMetaCompleteness
    \/ Report

----------------------------------------------------------------------------
(* the inputs of a run *)

MaxUnits == 2

Units == {"A", "a", "b"}

V100 == <<"1", ".", "0", ".", "0">>
V190 == <<"1", ".", "9", ".", "0">>
V200 == <<"2", ".", "0", ".", "0">>

\* the sequences without repetition of at most n elements of S
Arrangements(S, n) ==
    UNION {{q \in [1..k -> S] : \A i, j \in 1..k : i < j => q[i] # q[j]} :
           k \in 0..n}

Manifest(name, version) ==
    [name |-> name, version |-> version, description |-> JStr(<<"d">>),
     author |-> JStr(<<"x">>), license |-> JStr(<<"MIT">>)]

\* every discovered unit directory exists; each may hold a skills directory
DiskOf(dirs, files) ==
    [q \in dirs \cup files |-> IF q \in dirs THEN "dir" ELSE "file"]

RootDirs == {<<"/">>, FABRICA_ROOT} \cup {plugin_dir(u) : u \in Units}

Heading(version) == <<"#", "#", " ", "[">> \o version \o <<"]", "\n">>

Entry(name, desc) == [name |-> name, description |-> <<desc>>]

\* what one unit may look like in a run of the whole program
UnitProfiles(u) ==
    { [pj |-> Ok(Manifest(JStr(u), JStr(V100))), mkt |-> Absent, log |-> Absent],
      [pj |-> Absent, mkt |-> Absent, log |-> Absent],
      [pj |-> Ok([name |-> JStr(u), version |-> JStr(V200)]), mkt |-> Absent,
       log |-> Ok(Heading(V190))],
      [pj |-> Malformed, mkt |-> Absent, log |-> Absent],
      [pj |-> Ok(Manifest(JStr(u), JStr(V100))), mkt |-> Malformed, log |-> Absent],
      [pj |-> Absent, mkt |-> Malformed, log |-> Absent] }

QuietProfile(u) ==
    [pj |-> Ok(Manifest(JStr(u), JStr(V100))), mkt |-> Absent, log |-> Absent]

MetaFile ==
    Ok([plugins |-> [a |-> [version |-> V100, tags |-> <<"t">>],
                     b |-> [version |-> V100]]])

\* what the three global files may look like in a run of the whole program
GlobalProfiles ==
    { [meta |-> Absent, site |-> Absent, emporium |-> Absent],
      [meta |-> Malformed, site |-> Absent, emporium |-> Absent],
      [meta |-> MetaFile, site |-> Malformed,
       emporium |-> Ok([plugins |-> <<Entry("a", "one")>>])],
      [meta |-> Absent, site |-> Ok([plugins |-> <<Entry("a", "one")>>]),
       emporium |-> Malformed],
      [meta |-> MetaFile,
       site |-> Ok([plugins |-> <<Entry("a", "one"), Entry("b", "two")>>]),
       emporium |-> Ok([plugins |-> <<Entry("a", "other")>>])],
      [meta |-> Absent,
       site |-> Ok([plugins |-> <<Entry("a", "one")>>]),
       emporium |-> Ok([plugins |-> <<Entry("b", "one")>>])] }

\* the program state when main() is entered
Entered ==
    /\ pc = "start"
    /\ todo = << >>
    /\ site_meta_cache = Absent
    /\ findings = << >>
    /\ stdout = << >>
    /\ returned = << >>
    /\ calls = << >>
    /\ v = << >>
    /\ matched = "none"

Init ==
    /\ json_mode \in BOOLEAN
    /\ PLUGIN_DIRS \in Arrangements(Units, MaxUnits)
    /\ \E prof \in [Units -> UNION {UnitProfiles(u) : u \in Units}] :
          /\ \A u \in Units :
                prof[u] \in (IF \E i \in 1..Len(PLUGIN_DIRS) : PLUGIN_DIRS[i] = u
                             THEN UnitProfiles(u) ELSE {QuietProfile(u)})
          /\ plugin_json = [u \in Units |-> prof[u].pj]
          /\ marketplace_json = [u \in Units |-> prof[u].mkt]
          /\ changelog = [u \in Units |-> prof[u].log]
    /\ \E g \in GlobalProfiles :
          /\ SITE_META = g.meta
          /\ SITE_MARKETPLACE = g.site
          /\ EMPORIUM_MARKETPLACE = g.emporium
    /\ disk = DiskOf(RootDirs \cup {Append(plugin_dir(u), "skills") : u \in Units}, {})
    /\ Entered

Spec == Init /\ [][Next]_vars

\* a run over the single unit u, every other unit directory undiscovered
OneUnit(u, pj, mkt, log) ==
    /\ PLUGIN_DIRS = <<u>>
    /\ plugin_json = [x \in Units |-> IF x = u THEN pj ELSE QuietProfile(x).pj]
    /\ marketplace_json = [x \in Units |-> IF x = u THEN mkt ELSE Absent]
    /\ changelog = [x \in Units |-> IF x = u THEN log ELSE Absent]

NoGlobalFiles ==
    /\ SITE_META = Absent
    /\ SITE_MARKETPLACE = Absent
    /\ EMPORIUM_MARKETPLACE = Absent

PlainDisk == DiskOf(RootDirs, {})

\* a JSON object from the fields that are not marked missing
Missing == [t |-> "missing"]
Object(fields) == [k \in {x \in DOMAIN fields : fields[x] # Missing} |-> fields[k]]

----------------------------------------------------------------------------
(* inputs of the version rule *)

VersionValues == {Missing, JNull, JInt, JStr(<< >>), JStr(V200), JStr(V190)}

ChangelogFiles ==
    { Absent,
      Ok(<<"#", " ", "l", "o", "g", "\n">>),
      Ok(<<"#", "#", " ", "[", "1", ".", "9", "]", "\n">>),
      Ok(Heading(V190)),
      Ok(Heading(V200)),
      Ok(<<"#", " ", "l", "o", "g", "\n">> \o Heading(V200) \o Heading(V190)),
      Ok(<<"#", "#", "[">> \o V190 \o <<"]">>) }

VersionSiteMetaFiles ==
    { Absent,
      Ok(EmptyDict),
      Ok([plugins |-> EmptyDict]),
      Ok([updated |-> <<"today">>]),
      Ok([plugins |-> [a |-> EmptyDict]]),
      Ok([plugins |-> [a |-> [tags |-> <<"t">>]]]),
      Ok([plugins |-> [a |-> [version |-> << >>]]]),
      Ok([plugins |-> [a |-> [version |-> V200]]]),
      Ok([plugins |-> [a |-> [version |-> V190, tags |-> <<"t">>]]]),
      Ok([plugins |-> [b |-> [version |-> V190]]]) }

InitVersion ==
    /\ json_mode \in BOOLEAN
    /\ \E ver \in VersionValues, log \in ChangelogFiles :
          \/ OneUnit("a", Ok(Object(Manifest(JStr("a"), ver))), Absent, log)
          \/ ver = Missing /\ OneUnit("a", Absent, Absent, log)
    /\ SITE_META \in VersionSiteMetaFiles
    /\ SITE_MARKETPLACE = Absent
    /\ EMPORIUM_MARKETPLACE = Absent
    /\ disk = PlainDisk
    /\ Entered

SpecVersion == InitVersion /\ [][Next]_vars

----------------------------------------------------------------------------
(* inputs of the listing rules *)

MaxListing == 2

ListingEntries == {Entry(n, d) : n \in {"a", "b"}, d \in {"one", "two"}}

ListingFiles ==
    {Absent, Ok(EmptyDict), Ok([owner |-> <<"o">>])}
        \cup {Ok([plugins |-> q]) :
                q \in UNION {[1..k -> ListingEntries] : k \in 0..MaxListing}}

InitListing ==
    /\ json_mode = FALSE
    /\ OneUnit("a", QuietProfile("a").pj, Absent, Absent)
    /\ SITE_META \in {Absent, MetaFile}
    /\ SITE_MARKETPLACE \in ListingFiles
    /\ EMPORIUM_MARKETPLACE \in ListingFiles
    /\ disk = PlainDisk
    /\ Entered

SpecListing == InitListing /\ [][Next]_vars

----------------------------------------------------------------------------
(* inputs of the manifest schema rule *)

NameValues == {Missing, JNull, JInt, JStr("a"), JStr("A"), JStr("b")}

SchemaVersionValues ==
    { Missing, JNull, JInt, JStr(<< >>), JStr(V100),
      JStr(<<"0", "1", ".", "0", ".", "0">>),
      JStr(<<"1", ".", "0">>),
      JStr(V100 \o <<"-", "b">>) }

InitSchema ==
    /\ json_mode \in BOOLEAN
    /\ \E u \in {"a", "A"} :
          \/ \E nv \in NameValues, vv \in SchemaVersionValues,
                dv \in {Missing, JStr(<<"d">>)},
                lv \in {Missing, JNull, JStr(<<"MIT">>)} :
                OneUnit(u, Ok(Object([name |-> nv, version |-> vv,
                                      description |-> dv,
                                      author |-> JStr(<<"x">>),
                                      license |-> lv])),
                        Absent, Absent)
          \/ \E mkt \in {Absent, Ok([plugins |-> << >>])} :
                OneUnit(u, Absent, mkt, Absent)
    /\ NoGlobalFiles
    /\ disk = PlainDisk
    /\ Entered

SpecSchema == InitSchema /\ [][Next]_vars

----------------------------------------------------------------------------
(* inputs of the component declaration rule: the declarations of one       *)
(* category over the entries of the plugins array, and the disk            *)

MaxEntries == 2
MaxDeclared == 2

DeclaredCategories == {"skills", "hooks"}

OtherCategory == [skills |-> "commands", hooks |-> "agents"]

\* the conventional directory, the same through ".", a file in it, a path
\* into the neighbouring unit, an absolute path
PathsOf(cat) ==
    { <<cat>>, <<".", cat>>, <<cat, "foo.md">>, <<"..", "b", cat>>,
      <<"/", "abs", cat>> }

\* <<entry, path>> declarations, grouped by entry
Declarations(cat, n) ==
    UNION {{d \in [1..k -> (1..n) \X PathsOf(cat)] :
               \A i \in 1..(k - 1) : d[i][1] <= d[i + 1][1]} :
           k \in 0..MaxDeclared}

PathsOfEntry(d, e) ==
    LET mine == SelectSeq(d, LAMBDA x : x[1] = e)
    IN  [i \in 1..Len(mine) |-> mine[i][2]]

ManifestOf(cat, n, d) ==
    [plugins |-> [e \in 1..n |->
        IF PathsOfEntry(d, e) = << >> THEN EmptyDict
        ELSE [c \in {cat} |-> PathsOfEntry(d, e)]]]

\* the directory of one further category always exists, undeclared
ComponentDisk(cat, kind, outside) ==
    DiskOf(RootDirs \cup {<<"/", "abs">>}
             \cup (IF kind \in {"dir", "dirfile"}
                   THEN {Append(plugin_dir("a"), cat)} ELSE {})
             \cup (IF outside
                   THEN {Append(plugin_dir("b"), cat), <<"/", "abs", cat>>}
                   ELSE {})
             \cup {Append(plugin_dir("a"), OtherCategory[cat])},
           (IF kind = "file" THEN {Append(plugin_dir("a"), cat)} ELSE {})
             \cup (IF kind = "dirfile"
                   THEN {plugin_dir("a") \o <<cat, "foo.md">>} ELSE {}))

InitComponents ==
    /\ json_mode = FALSE
    /\ \E cat \in DeclaredCategories :
          /\ \/ \E n \in 0..MaxEntries : \E d \in Declarations(cat, n) :
                   OneUnit("a", QuietProfile("a").pj, Ok(ManifestOf(cat, n, d)), Absent)
             \/ \E mkt \in {Absent, Ok(EmptyDict)} :
                   OneUnit("a", QuietProfile("a").pj, mkt, Absent)
          /\ \E kind \in {"none", "file", "dir", "dirfile"}, outside \in BOOLEAN :
                disk = ComponentDisk(cat, kind, outside)
    /\ NoGlobalFiles
    /\ Entered

SpecComponents == InitComponents /\ [][Next]_vars

----------------------------------------------------------------------------
(* the regex on its own *)

MaxLen == 6

Alphabet == {"0", "1", ".", "a", "-", "\n"}

InitSemver ==
    /\ v \in UNION {[1..k -> Alphabet] : k \in 0..MaxLen}
    /\ matched = "none"
    /\ json_mode = FALSE
    /\ PLUGIN_DIRS = << >>
    /\ plugin_json = [x \in Units |-> Absent]
    /\ marketplace_json = [x \in Units |-> Absent]
    /\ changelog = [x \in Units |-> Absent]
    /\ NoGlobalFiles
    /\ disk = PlainDisk
    /\ pc = "regex"
    /\ todo = << >>
    /\ site_meta_cache = Absent
    /\ findings = << >>
    /\ stdout = << >>
    /\ returned = << >>
    /\ calls = << >>

\* SEMVER_RE.match(v)
Match ==
    /\ pc = "regex"
    /\ matched = "none"
    /\ matched' = IF SEMVER_RE_match(v) THEN "match" ELSE "nomatch"
    /\ UNCHANGED <<inputs, pc, todo, site_meta_cache, findings, stdout,
                   returned, calls, v>>

NextSemver == Match

SpecSemver == InitSemver /\ [][NextSemver]_vars

----------------------------------------------------------------------------
(* Properties of main() *)

\* the findings a step appended
New == SubSeq(findings', Len(findings) + 1, Len(findings'))

Discovered == {PLUGIN_DIRS[i] : i \in 1..Len(PLUGIN_DIRS)}

\* C1: when main() returns, the exit status is 0 if the findings list holds
\* no CRITICAL and no HIGH finding, and 1 otherwise, in both output modes
\* (the early return of the human-readable mode included).
C1_ExitStatus ==
    pc = "done" =>
        LET blocking == {i \in 1..Len(findings) :
                            findings[i].severity = "CRITICAL"
                            \/ findings[i].severity = "HIGH"}
        IN  returned = IF blocking = {} THEN <<0>> ELSE <<1>>

C1_Witness ==
    /\ pc = "done"
    /\ ~json_mode
    /\ returned = <<1>>
    /\ \E i \in 1..Len(findings) : findings[i].severity = "HIGH"
    /\ \A i \in 1..Len(findings) : findings[i].severity # "CRITICAL"

\* some file the run reads as JSON exists but is malformed
AnyMalformed ==
    \/ SITE_META.st = "malformed"
    \/ SITE_MARKETPLACE.st = "malformed"
    \/ EMPORIUM_MARKETPLACE.st = "malformed"
    \/ \E u \in Discovered :
          plugin_json[u].st = "malformed" \/ marketplace_json[u].st = "malformed"

\* C4: a run that reads a malformed JSON file never completes: it ends
\* aborted, with nothing printed and no exit status, whatever findings were
\* appended before; a run whose files are well-formed or absent never aborts.
C4_MalformedAborts ==
    /\ AnyMalformed => pc # "done" /\ stdout = << >> /\ returned = << >>
    /\ pc = "aborted" => AnyMalformed /\ stdout = << >> /\ returned = << >>
    /\ AnyMalformed /\ pc # "aborted" => ENABLED Next
    /\ pc = "done" => stdout # << >> /\ returned # << >>

C4_Witness ==
    /\ pc = "aborted"
    /\ findings # << >>
    /\ stdout = << >>
    /\ EMPORIUM_MARKETPLACE.st = "malformed"
    /\ \E u \in Discovered : plugin_json[u].st = "absent"

PerUnitRules == <<"schema", "components", "version">>
GlobalRules == <<"description", "emporium_vs_site", "site_meta_completeness">>

GlobalMessages ==
    { "Description mismatch: skill7.dev marketplace.json vs emporium marketplace.json",
      "Plugin in emporium but missing from skill7.dev",
      "Plugin on skill7.dev but missing from emporium",
      "Plugin in marketplace.json but missing from plugin-meta.json",
      "No version in plugin-meta.json",
      "No tags in plugin-meta.json" }

IsGlobalFinding(f) == f.message.text \in GlobalMessages

\* the rule invocations of a completed run
C10_CallOrder ==
    pc = "done" =>
        LET n == Len(PLUGIN_DIRS)
        IN  /\ Len(calls) = 3 * n + 3
            /\ \A k \in 1..n : \A r \in 1..3 :
                  /\ calls[3 * (k - 1) + r][1] = PerUnitRules[r]
                  /\ calls[3 * (k - 1) + r][2] = calls[3 * (k - 1) + 1][2]
            /\ {calls[3 * (k - 1) + 1][2] : k \in 1..n} = Discovered
            /\ \A k \in 1..(n - 1) :
                  NameRank[calls[3 * (k - 1) + 1][2]] < NameRank[calls[3 * k + 1][2]]
            /\ \A r \in 1..3 : calls[3 * n + r][1] = GlobalRules[r]

\* the order of the findings list, at every moment
C10_FindingOrder ==
    \A i, j \in 1..Len(findings) :
        i < j =>
            /\ IsGlobalFinding(findings[i]) => IsGlobalFinding(findings[j])
            /\ ~IsGlobalFinding(findings[i]) /\ ~IsGlobalFinding(findings[j])
                  => NameRank[findings[i].plugin] <= NameRank[findings[j].plugin]

\* C10: in a completed run the three per-unit rules ran once per discovered
\* unit, in the order schema, components, version, the units in ascending
\* name order, and then the three global rules once each; so the findings of
\* a unit precede those of a later-named unit and every per-unit finding
\* precedes every global one; and a step only ever appends to the list.
C10_RuleOrder ==
    /\ [](C10_CallOrder /\ C10_FindingOrder)
    /\ [][SubSeq(findings', 1, Len(findings)) = findings]_vars

C10_Witness ==
    /\ pc = "done"
    /\ Len(PLUGIN_DIRS) = 2
    /\ NameRank[PLUGIN_DIRS[1]] > NameRank[PLUGIN_DIRS[2]]
    /\ \A u \in Discovered :
          \E i \in 1..Len(findings) :
              ~IsGlobalFinding(findings[i]) /\ findings[i].plugin = u
    /\ \E i \in 1..Len(findings) : IsGlobalFinding(findings[i])

----------------------------------------------------------------------------
(* Properties of the rules *)

\* the canonical version of unit u when it is a non-empty text, else << >>
CanonicalVersion(u) ==
    LET f == plugin_json[u]
    IN  IF f.st = "ok" /\ "version" \in DOMAIN f.data /\ f.data.version.t = "str"
        THEN f.data.version.s
        ELSE << >>

\* the version the site metadata index holds for unit u, << >> if none
SiteVersion(u) ==
    IF /\ SITE_META.st = "ok"
       /\ "plugins" \in DOMAIN SITE_META.data
       /\ u \in DOMAIN SITE_META.data.plugins
       /\ "version" \in DOMAIN SITE_META.data.plugins[u]
    THEN SITE_META.data.plugins[u].version
    ELSE << >>

\* C2: check_version_consistency appends nothing unless the canonical
\* version is a non-empty text; then it appends one HIGH finding exactly when
\* a changelog version was extracted and differs, one CRITICAL finding
\* exactly when the site index has a non-empty version for the unit that
\* differs, and nothing else.
C2_VersionRule ==
    [][pc = "version" /\ pc' # "aborted" =>
        LET u == Head(todo)
            canonical == CanonicalVersion(u)
            log == get_changelog_version(changelog[u])
            high == canonical # << >> /\ log # << >> /\ log[1] # canonical
            critical == /\ canonical # << >>
                        /\ SiteVersion(u) # << >>
                        /\ SiteVersion(u) # canonical
        IN  /\ Len(OfSeverity(New, "HIGH")) = (IF high THEN 1 ELSE 0)
            /\ Len(OfSeverity(New, "CRITICAL")) = (IF critical THEN 1 ELSE 0)
            /\ Len(New) = (IF high THEN 1 ELSE 0) + (IF critical THEN 1 ELSE 0)
            /\ \A i \in 1..Len(New) : New[i].plugin = u]_vars

\* manifest 2.0.0, changelog 1.9.0, site 2.0.0: one HIGH, no CRITICAL
C2_Witness ==
    /\ pc = "description"
    /\ CanonicalVersion("a") = V200
    /\ get_changelog_version(changelog["a"]) = <<V190>>
    /\ SiteVersion("a") = V200
    /\ Len(OfSeverity(findings, "HIGH")) = 1
    /\ Len(OfSeverity(findings, "CRITICAL")) = 0
    /\ findings[1].message.text = "Version mismatch: plugin.json vs CHANGELOG.md"

NamesOf(file) ==
    LET plugins == Get(file.data, "plugins", << >>)
    IN  {plugins[i].name : i \in 1..Len(plugins)}

\* C3: when both listing files exist, check_emporium_vs_site appends one
\* HIGH finding for every name that is in one listing and not in the other,
\* attributed to that direction, and none for a name in both.
C3_ListingSymmetry ==
    [][/\ pc = "emporium_vs_site"
       /\ SITE_MARKETPLACE.st = "ok"
       /\ EMPORIUM_MARKETPLACE.st = "ok"
       =>
        LET site_names == NamesOf(SITE_MARKETPLACE)
            emporium_names == NamesOf(EMPORIUM_MARKETPLACE)
            Hits(n, text) ==
                Count(New, LAMBDA f : /\ f.plugin = n
                                      /\ f.severity = "HIGH"
                                      /\ f.message.text = text)
        IN  /\ \A n \in site_names \cup emporium_names :
                  /\ Hits(n, "Plugin in emporium but missing from skill7.dev")
                        = (IF n \in emporium_names \ site_names THEN 1 ELSE 0)
                  /\ Hits(n, "Plugin on skill7.dev but missing from emporium")
                        = (IF n \in site_names \ emporium_names THEN 1 ELSE 0)
            /\ Len(New) = Cardinality(emporium_names \ site_names)
                            + Cardinality(site_names \ emporium_names)]_vars

NameMessage == "plugin.json name doesn't match directory name"

NameHits(fs) == SelectSeq(fs, LAMBDA f : f.message.text = NameMessage)

\* C5 as stated: a manifest name that is present and differs from the
\* directory name gets a HIGH finding carrying both values, an equal name
\* gets none.
C5_NamePresent ==
    [][pc = "schema" /\ pc' # "aborted" /\ plugin_json[Head(todo)].st = "ok" =>
        LET u == Head(todo)
            pj == plugin_json[u].data
            present == "name" \in DOMAIN pj /\ pj.name # JNull
        IN  IF present /\ pj.name # JStr(u)
            THEN \E i \in 1..Len(New) :
                    /\ New[i].message.text = NameMessage
                    /\ New[i].severity = "HIGH"
            ELSE NameHits(New) = << >>]_vars

\* C5 amended: a manifest name that is a text value and differs from the
\* directory name (case-sensitively) gets exactly one HIGH finding carrying
\* the manifest name and the directory name; a name that is equal, absent,
\* null or not a text value gets none.
C5_NameCoherence ==
    [][pc = "schema" /\ pc' # "aborted" /\ plugin_json[Head(todo)].st = "ok" =>
        LET u == Head(todo)
            pj == plugin_json[u].data
            text == "name" \in DOMAIN pj /\ pj.name.t = "str"
        IN  IF text /\ pj.name.s # u
            THEN /\ Len(NameHits(New)) = 1
                 /\ NameHits(New)[1].severity = "HIGH"
                 /\ NameHits(New)[1].plugin = u
                 /\ NameHits(New)[1].sources =
                        << <<"plugin.json", <<pj.name.s>> >>, <<"directory", <<u>> >> >>
            ELSE NameHits(New) = << >>]_vars

C5_Witness ==
    /\ pc = "components"
    /\ PLUGIN_DIRS = <<"a">>
    /\ plugin_json["a"].st = "ok"
    /\ "name" \in DOMAIN plugin_json["a"].data
    /\ plugin_json["a"].data.name = JStr("A")
    /\ \E i \in 1..Len(findings) :
          /\ findings[i].message.text = NameMessage
          /\ findings[i].sources =
                << <<"plugin.json", <<"A">> >>, <<"directory", <<"a">> >> >>

----------------------------------------------------------------------------
(* Properties of the component declaration rule *)

\* the declared paths of a category, entry by entry, as one list
RECURSIVE DeclaredIn(_, _)
DeclaredIn(plugins, cat) ==
    IF plugins = << >> THEN << >>
    ELSE Get(Head(plugins), cat, << >>) \o DeclaredIn(Tail(plugins), cat)

AllDeclared(u, cat) ==
    IF marketplace_json[u].st # "ok" THEN << >>
    ELSE DeclaredIn(Get(marketplace_json[u].data, "plugins", << >>), cat)

Categories == {"skills", "commands", "agents", "hooks"}

Escapes(u, q) ==
    LET r == resolve(Join(plugin_dir(u), q))
    IN  ~(Len(r) >= Len(plugin_dir(u))
          /\ SubSeq(r, 1, Len(plugin_dir(u))) = plugin_dir(u))

ComponentsStep ==
    pc = "components" /\ pc' # "aborted" /\ marketplace_json[Head(todo)].st = "ok"

\* C6: for a category whose conventional directory exists, the rule appends
\* an "exists but undeclared" MEDIUM finding if and only if no path declared
\* for the category in any entry of the manifest resolves to the directory.
C6_Undeclared ==
    [][ComponentsStep =>
        LET u == Head(todo)
        IN  \A cat \in Categories :
               is_dir(Append(plugin_dir(u), cat)) =>
                  LET declared == AllDeclared(u, cat)
                      covered == \E i \in 1..Len(declared) :
                                    resolve(Join(plugin_dir(u), declared[i]))
                                        = Append(plugin_dir(u), cat)
                      reported == \E i \in 1..Len(New) :
                                     /\ New[i].severity = "MEDIUM"
                                     /\ New[i].message.arg = <<cat>>
                  IN  reported <=> ~covered]_vars

\* C7: the rule appends one HIGH "path does not exist" finding, naming the
\* category and the path, for each declared occurrence of a relative path
\* that does not exist under the unit directory, and none for one that does.
C7_MissingPaths ==
    [][ComponentsStep =>
        LET u == Head(todo)
        IN  \A cat \in Categories :
               LET declared == AllDeclared(u, cat)
               IN  \A k \in 1..Len(declared) :
                      LET q == declared[k]
                          occurrences == Count(declared, LAMBDA x : x = q)
                          hits == Count(New, LAMBDA f :
                                     /\ f.severity = "HIGH"
                                     /\ f.plugin = u
                                     /\ f.message.text =
                                          "marketplace.json declares path that does not exist"
                                     /\ f.message.arg = <<cat>> \o q)
                      IN  ~is_absolute(q) =>
                             hits = (IF exists(plugin_dir(u) \o q)
                                     THEN 0 ELSE occurrences)]_vars

C7_Witness ==
    /\ pc = "version"
    /\ marketplace_json["a"] = Ok([plugins |-> <<[skills |-> <<<<"skills", "foo.md">>>>]>>])
    /\ ~exists(plugin_dir("a") \o <<"skills", "foo.md">>)
    /\ Count(findings, LAMBDA f : f.severity = "HIGH") = 1
    /\ \E i \in 1..Len(findings) :
          /\ findings[i].severity = "HIGH"
          /\ findings[i].message.arg = <<"skills", "skills", "foo.md">>

FlaggedHigh(fs, cat, q) ==
    \E i \in 1..Len(fs) :
        fs[i].severity = "HIGH" /\ fs[i].message.arg = <<cat>> \o q

AbsoluteHits(fs, cat, q) ==
    Count(fs, LAMBDA f : /\ f.severity = "HIGH"
                         /\ f.message.text = "marketplace.json has absolute path"
                         /\ f.message.arg = <<cat>> \o q)

\* C8 as stated: every declared absolute path gets the "absolute path"
\* finding, and every declared path that resolves outside the unit directory
\* is flagged HIGH.
C8_NoEscape ==
    [][ComponentsStep =>
        LET u == Head(todo)
        IN  \A cat \in Categories :
               LET declared == AllDeclared(u, cat)
               IN  \A k \in 1..Len(declared) :
                      /\ is_absolute(declared[k])
                            => AbsoluteHits(New, cat, declared[k]) >= 1
                      /\ Escapes(u, declared[k])
                            => FlaggedHigh(New, cat, declared[k])]_vars

\* C8 amended: every declared occurrence of an absolute path gets one HIGH
\* "absolute path" finding whether or not the path exists, and a relative
\* path gets none; a relative path that resolves outside the unit directory
\* is flagged HIGH exactly when it does not exist.
C8_AbsoluteFlagged ==
    [][ComponentsStep =>
        LET u == Head(todo)
        IN  \A cat \in Categories :
               LET declared == AllDeclared(u, cat)
               IN  \A k \in 1..Len(declared) :
                      LET q == declared[k]
                      IN  /\ AbsoluteHits(New, cat, q) =
                                (IF is_absolute(q)
                                 THEN Count(declared, LAMBDA x : x = q) ELSE 0)
                          /\ ~is_absolute(q) /\ Escapes(u, q) =>
                                (FlaggedHigh(New, cat, q)
                                    <=> ~exists(plugin_dir(u) \o q))]_vars

C8_Witness ==
    /\ pc = "version"
    /\ AllDeclared("a", "skills") = << <<"/", "abs", "skills">> >>
    /\ exists(<<"/", "abs", "skills">>)
    /\ AbsoluteHits(findings, "skills", <<"/", "abs", "skills">>) = 1

----------------------------------------------------------------------------
(* Properties of SEMVER_RE *)

\* the pieces of s between its dots
RECURSIVE SplitDots(_, _)
SplitDots(s, piece) ==
    IF s = << >> THEN <<piece>>
    ELSE IF Head(s) = "." THEN <<piece>> \o SplitDots(Tail(s), << >>)
    ELSE SplitDots(Tail(s), Append(piece, Head(s)))

\* a non-negative decimal number without a leading zero
DecimalGroup(g) ==
    /\ g # << >>
    /\ \A i \in 1..Len(g) : g[i] \in Digits
    /\ Len(g) > 1 => g[1] # "0"

IsStrictSemver(s) ==
    LET groups == SplitDots(s, << >>)
    IN  Len(groups) = 3 /\ \A i \in 1..3 : DecimalGroup(groups[i])

\* C9: SEMVER_RE.match(v) succeeds if and only if v is three dot-separated
\* decimal groups without leading zeros, with nothing before or after them.
C9_SemverExact ==
    matched # "none" => (matched = "match" <=> IsStrictSemver(v))

====
